---- MODULE Spec2Model ----
(***************************************************************************)
(* Model of cf_remote/ssh.py: connection establishment (connect), the      *)
(* Remote Connection object with its SSH Control Master process, the       *)
(* LocalConnection made for "localhost", the scoped use of a connection    *)
(* (auto_connect, scp) and the command dispatch helpers (ssh_cmd,          *)
(* ssh_sudo).                                                              *)
(*                                                                         *)
(* Text is a sequence of tokens; CR, LF and DQ stand for the characters    *)
(* "\r", "\n" and the double quote.  The Control Master is an independent  *)
(* OS process: the program observes it only through poll() and             *)
(* send_signal(), so its exit is modelled at those observation points.     *)
(* Objects are finalised (__del__) by the runtime some time after they     *)
(* become unreachable, oldest first.                                       *)
(***************************************************************************)
EXTENDS Integers, Sequences, FiniteSets, TLC

VARIABLES inp, pc, host, port, users, idx, attempts, heap, result, exc,
          exitMsg, lastCall, lastResult, delpc, delErr, sigDead, leaked,
          scope, ops, ret, diag

vars == <<inp, pc, host, port, users, idx, attempts, heap, result, exc,
          exitMsg, lastCall, lastResult, delpc, delErr, sigDead, leaked,
          scope, ops, ret, diag>>

----------------------------------------------------------------------------
(* Bounds *)

\* longest explicit user list enumerated
MaxExplicit == 2
\* most unreachable connection objects awaiting finalisation at a new attempt
MaxGarbage == 1
\* most operations a caller issues on an established connection
MaxOps == 2
\* most explicit teardown calls made by a caller holding the connection
MaxTeardowns == 2

----------------------------------------------------------------------------
(* Values *)

CR == "CR"
LF == "LF"
DQ == "DQ"
SP == "SP"

\* Python's None for a text, list or number valued variable
None == [given |-> FALSE]
Some(v) == [given |-> TRUE, v |-> v]

\* Python truthiness of an optional list, string or number
TruthyList(o) == o.given /\ Len(o.v) > 0
TruthyStr(o) == o.given /\ o.v # ""
TruthyNum(o) == o.given /\ o.v # 0

DEFAULT_SSH_PORT == 22

FALLBACK == <<"Administrator", "admin", "ubuntu", "ec2-user", "centos",
              "vagrant", "root">>

InList(x, s) == \E k \in 1..Len(s) : s[k] = x

----------------------------------------------------------------------------
(* Inputs *)

Entries == {"connect", "scp", "auto"}
ExplicitNames == {"bob", "root"}
OsUsers == {"alice", "root"}
HostNames == {"h1"}
HomeDir == "/home/me"

RECURSIVE SeqsUpTo(_, _)
SeqsUpTo(S, n) ==
    IF n = 0 THEN {<<>>}
    ELSE LET shorter == SeqsUpTo(S, n - 1)
         IN  shorter \cup {Append(s, x) : s \in shorter, x \in S}

ExplicitUsers == {None} \cup {Some(s) : s \in SeqsUpTo(ExplicitNames, MaxExplicit)}
\* what urlparse("ssh://" + host_spec) yields: username, hostname, port
ParsedHosts ==
    [username : {None, Some(""), Some("eve")},
     hostname : HostNames,
     port : {None, Some(2222)}]
\* value of the environment variable CF_REMOTE_SSH_KEY
EnvKeys == {None, Some(<<"~", "/id">>)}

\* the calls of connect(host, users)
ConnectInputs ==
    [entry : {"connect"}, users : ExplicitUsers, parts : ParsedHosts,
     osUser : OsUsers, key : EnvKeys]

\* calls followed through the use of the connection: a direct connect, a
\* function wrapped by auto_connect, and scp(file, remote) without a
\* connection, which calls connect(remote) with no users
RemoteInputs ==
    {i \in [entry : Entries,
            users : {None, Some(<<"bob", "root">>)},
            parts : [username : {Some("eve")}, hostname : HostNames,
                     port : {None}],
            osUser : {"alice"}, key : EnvKeys] :
        i.entry = "scp" => i.users = None}

\* a function wrapped by auto_connect, called for the host "localhost"
LocalInputs ==
    [entry : {"auto"}, users : {None},
     parts : [username : {None}, hostname : {"localhost"}, port : {None}],
     osUser : {"alice"}, key : EnvKeys]

Inputs == RemoteInputs \cup LocalInputs

\* line 171: host == "localhost"
IsLocalhost(i) ==
    /\ ~i.parts.username.given
    /\ ~i.parts.port.given
    /\ i.parts.hostname = "localhost"

----------------------------------------------------------------------------
(* External collaborators *)

\* utils.whoami(): the invoking OS user's name
whoami == inp.osUser

\* os.path.expanduser: a leading "~" becomes the home directory
expanduser(path) ==
    IF Len(path) > 0 /\ path[1] = "~" THEN <<HomeDir>> \o Tail(path) ELSE path

\* "%s" % port
PortText == (22 :> "22" @@ 2222 :> "2222")

\* stdout values the remote shell can produce for a probe
ProbeOutputs == {<<"0", LF>>, <<"1000", LF>>, <<>>}
RetCodes == {0, 1}

\* aramid.execute for one host: it raises ExecutionError or returns that
\* host's ExecutionResult
Execute(outs) ==
    {[raised |-> TRUE]} \cup
    {[raised |-> FALSE, retcode |-> rc, stdout |-> o] : rc \in RetCodes, o \in outs}

\* str.strip(): whitespace removed at both ends
IsSpace(t) == t \in {CR, LF, SP}
RECURSIVE LStrip(_), RStrip(_)
LStrip(s) == IF s # <<>> /\ IsSpace(Head(s)) THEN LStrip(Tail(s)) ELSE s
RStrip(s) ==
    IF s # <<>> /\ IsSpace(s[Len(s)]) THEN RStrip(SubSeq(s, 1, Len(s) - 1)) ELSE s
Strip(s) == LStrip(RStrip(s))

----------------------------------------------------------------------------
(* class LocalConnection *)

\* lines 16-22: the object before needs_sudo is assigned; it has no port
\* and no __del__
NewLocalConnection(u) ==
    [class |-> "LocalConnection", ssh_user |-> u, ssh_host |-> "localhost",
     needs_sudo |-> "unset", dels |-> 0]

IsLocal(c) == c.class = "LocalConnection"

\* lines 28-37: subprocess.run returns the completed process
LocalRun(outs) ==
    {[raised |-> FALSE, retcode |-> rc, stdout |-> o] :
        rc \in RetCodes, o \in outs}

\* the subprocess.run call made by LocalConnection.run
LocalRunCall(command) ==
    [op |-> "subprocess.run", command |-> command, cwd |-> HomeDir]

\* os.path.abspath for a relative path, the working directory being HOME
abspath(path) == <<HomeDir, "/">> \o path

----------------------------------------------------------------------------
(* class Connection *)

\* every argument is a text (a sequence of tokens)
control_master_args(c) ==
    << <<"ssh">>, <<"-M">>, <<"-N">>, <<"-p ", PortText[c.ssh_port]>>,
       <<"-oControlPath=">> \o c.control_path, <<"DEFAULT_SSH_ARGS">>,
       <<c.ssh_user, "@", c.ssh_host>> >>

\* Connection.__init__ up to the launch of the Control Master
NewConnection(h, u, kw, p) ==
    [class |-> "Connection",
     ssh_host |-> h, ssh_port |-> p, ssh_user |-> u, connect_kwargs |-> kw,
     control_path |-> <<"cf_remote_dir", "/", "%C">>,
     handle |-> "unset", mux |-> "none", needs_sudo |-> "unset",
     launch |-> <<>>, dels |-> 0]

\* the socket ssh opens for -oControlPath: %C in the path stands for a hash
\* of the local host name, the remote host, the port and the remote user
ControlSocket(c) ==
    [t \in DOMAIN c.control_path |->
        IF c.control_path[t] = "%C"
          THEN <<"hash", "localhost", c.ssh_host, PortText[c.ssh_port],
                 c.ssh_user>>
          ELSE <<c.control_path[t]>>]

\* subprocess.Popen(control_master_args) succeeded
Launched(c) ==
    [c EXCEPT !.handle = "set", !.mux = "running",
              !.launch = control_master_args(c)]

\* Popen.poll(): None while the process runs; once it has exited the
\* return code is reported from then on
\* (a LocalConnection has no process to poll)
PollOutcomes(c) ==
    IF IsLocal(c) \/ c.mux = "exited" THEN {FALSE} ELSE {TRUE, FALSE}
Polled(c, alive) ==
    IF IsLocal(c) THEN c ELSE [c EXCEPT !.mux = IF alive THEN @ ELSE "exited"]

\* the control path is handed over whether or not the process is alive
extra_ssh_argsAlways(c, alive) ==
    (IF DOMAIN c.connect_kwargs # {} /\ "key_filename" \in DOMAIN c.connect_kwargs
        THEN << <<"-i">>, c.connect_kwargs["key_filename"] >> ELSE <<>>)
    \o << <<"-oControlPath=">> \o c.control_path >>

\* Connection.run: the extra ssh arguments handed to aramid.Host
extra_ssh_args(c, alive) ==
    (IF DOMAIN c.connect_kwargs # {} /\ "key_filename" \in DOMAIN c.connect_kwargs
        THEN << <<"-i">>, c.connect_kwargs["key_filename"] >> ELSE <<>>)
    \o (IF alive THEN << <<"-oControlPath=">> \o c.control_path >> ELSE <<>>)

\* the aramid.execute call made by Connection.run
RemoteRunCall(c, alive, command) ==
    [op |-> "execute", host |-> c.ssh_host, user |-> c.ssh_user,
     port |-> c.ssh_port, args |-> extra_ssh_args(c, alive),
     command |-> command, polled |-> alive]

\* connection.run(command): the call it makes
RunCall(c, alive, command) ==
    IF IsLocal(c) THEN LocalRunCall(command)
    ELSE RemoteRunCall(c, alive, command)

\* connection.run(command): what can come of it
RunOutcomes(c, outs) == IF IsLocal(c) THEN LocalRun(outs) ELSE Execute(outs)

NoCall == [op |-> "none"]
NoResult == [raised |-> FALSE, retcode |-> 0, of |-> <<>>]
NoReturn == [op |-> "none"]

\* the outcome r of the engine call made for command
ResultOf(r, command) ==
    IF r.raised THEN [raised |-> TRUE, of |-> command]
    ELSE [raised |-> FALSE, retcode |-> r.retcode, of |-> command]

\* the outcome r of the needs_sudo probe, with the output it printed
ProbeResultOf(r, command) ==
    IF r.raised THEN ResultOf(r, command)
    ELSE [raised |-> FALSE, retcode |-> r.retcode, of |-> command,
          stdout |-> r.stdout]

----------------------------------------------------------------------------
(* The heap of Connection objects, keyed by the attempt that created them *)

Objs == DOMAIN heap
Put(k, c) == [j \in Objs \cup {k} |-> IF j = k THEN c ELSE heap[j]]
Free(k) == [j \in Objs \ {k} |-> heap[j]]

Start ==
    /\ pc = "start"
    /\ host = ""
    /\ port = 0
    /\ users = <<>>
    /\ idx = 0
    /\ attempts = <<>>
    /\ heap = <<>>
    /\ result = 0
    /\ exc = "none"
    /\ exitMsg = None
    /\ lastCall = NoCall
    /\ lastResult = NoResult
    /\ delpc = 0
    /\ delErr = FALSE
    /\ sigDead = FALSE
    /\ leaked = FALSE
    /\ scope = "none"
    /\ ops = 0
    /\ ret = NoReturn
    /\ diag = None

Init == inp \in Inputs /\ Start
InitConnect == inp \in ConnectInputs /\ Start

----------------------------------------------------------------------------
(* connect(host, users=None) *)

connVars == <<host, port, users, idx, attempts, result>>
delVars == <<delpc, delErr, sigDead, leaked>>
useVars == <<scope, ops, ret, diag>>

\* the invoking user is prepended without looking for it in the list
CandidateUsersPrepend(explicit, username, me) ==
    LET users1 == IF ~TruthyList(explicit) /\ TruthyStr(username)
                    THEN Some(<<username.v>>) ELSE explicit
    IN  IF ~TruthyList(users1) THEN <<me>> \o FALLBACK ELSE users1.v

\* lines 126-142: the users the loop will try
CandidateUsers(explicit, username, me) ==
    LET users1 == IF ~TruthyList(explicit) /\ TruthyStr(username)
                    THEN Some(<<username.v>>) ELSE explicit
    IN  IF ~TruthyList(users1)
          THEN IF ~InList(me, FALLBACK) THEN <<me>> \o FALLBACK ELSE FALLBACK
          ELSE users1.v

\* line 128
ChosenPort(p) == IF TruthyNum(p) THEN p.v ELSE DEFAULT_SSH_PORT

\* lines 146-149
ConnectKwargs(key) ==
    IF key.given /\ Len(key.v) > 0
      THEN [n \in {"key_filename"} |-> expanduser(key.v)]
      ELSE <<>>

\* the same user is tried again
SameIndex(i) == i

\* lines 143 and 159: continue takes the loop to the next user
NextIndex(i) == i + 1

\* the connection is returned whatever the whoami run did
VerifiedAlways(r) == TRUE

\* lines 156-158: the connection is returned unless the run raised
Verified(r) == ~r.raised

\* the output is compared as it was printed
NeedsSudoRaw(stdout) == IF stdout # <<"0">> THEN "True" ELSE "False"

\* needs_sudo as computed on lines 22 and 82
NeedsSudo(stdout) == IF Strip(stdout) # <<"0">> THEN "True" ELSE "False"

\* lines 121-142
ConnectStart ==
    /\ pc = "start"
    /\ ~(inp.entry = "auto" /\ IsLocalhost(inp))
    /\ host' = inp.parts.hostname
    /\ port' = ChosenPort(inp.parts.port)
    /\ users' = CandidateUsers(inp.users, inp.parts.username, whoami)
    /\ idx' = 1
    /\ pc' = "for"
    /\ UNCHANGED <<inp, attempts, heap, result, exc, exitMsg, lastCall,
                   lastResult, delVars, useVars>>

\* lines 143-152 and 50-80: the next user is taken and the Connection is
\* constructed up to the launch of the Control Master
AttemptLaunch ==
    /\ pc = "for"
    /\ delpc = 0
    /\ idx <= Len(users)
    /\ Cardinality(Objs) <= MaxGarbage
    /\ LET c == NewConnection(host, users[idx], ConnectKwargs(inp.key), port)
       IN  /\ attempts' = Append(attempts, users[idx])
           /\ \/ /\ heap' = Put(idx, Launched(c))
                 /\ pc' = "probe"
                 /\ exc' = exc
              \/ \* Popen raises OSError, which connect does not catch
                 /\ heap' = Put(idx, c)
                 /\ pc' = "raised"
                 /\ exc' = "OSError"
    /\ UNCHANGED <<inp, host, port, users, idx, result, exitMsg, lastCall,
                   lastResult, delVars, useVars>>

\* line 82 (through run, lines 93-106), and lines 158-159 when it raises
AttemptProbe ==
    /\ pc = "probe"
    /\ delpc = 0
    /\ \E alive \in PollOutcomes(heap[idx]), r \in Execute(ProbeOutputs) :
        LET c == Polled(heap[idx], alive)
        IN  /\ lastCall' = RunCall(c, alive, <<"echo $UID">>)
            /\ lastResult' = ProbeResultOf(r, <<"echo $UID">>)
            /\ IF r.raised
                 THEN /\ heap' = Put(idx, c)
                      /\ idx' = NextIndex(idx)
                      /\ pc' = "for"
                 ELSE /\ heap' = Put(idx, [c EXCEPT !.needs_sudo =
                                                       NeedsSudo(r.stdout)])
                      /\ idx' = idx
                      /\ pc' = "verify"
    /\ UNCHANGED <<inp, host, port, users, attempts, result, exc, exitMsg,
                   delVars, useVars>>

\* lines 153-159: the fields are bound, whoami is run and the connection is
\* returned unless the engine raised
AttemptVerify ==
    /\ pc = "verify"
    /\ delpc = 0
    /\ \E alive \in PollOutcomes(heap[idx]), r \in Execute({<<"me", LF>>}) :
        LET bound == [heap[idx] EXCEPT !.ssh_user = users[idx],
                                       !.ssh_host = host, !.ssh_port = port]
            c == Polled(bound, alive)
        IN  /\ lastCall' = RunCall(c, alive, <<"whoami">>)
            /\ lastResult' = ResultOf(r, <<"whoami">>)
            /\ heap' = Put(idx, c)
            /\ IF ~Verified(r)
                 THEN /\ idx' = NextIndex(idx)
                      /\ pc' = "for"
                      /\ result' = result
                 ELSE /\ idx' = idx
                      /\ pc' = "returned"
                      /\ result' = idx
    /\ UNCHANGED <<inp, host, port, users, attempts, exc, exitMsg, delVars,
                   useVars>>

\* lines 170-172 and 20-22: for "localhost" auto_connect makes a
\* LocalConnection, whose constructor probes needs_sudo, and calls the
\* wrapped function with it
LocalConnect ==
    /\ pc = "start"
    /\ inp.entry = "auto"
    /\ IsLocalhost(inp)
    /\ \E r \in LocalRun(ProbeOutputs) :
        /\ heap' = Put(1, [NewLocalConnection(inp.osUser) EXCEPT
                              !.needs_sudo = NeedsSudo(r.stdout)])
        /\ lastCall' = LocalRunCall(<<"echo $UID">>)
        /\ lastResult' = ProbeResultOf(r, <<"echo $UID">>)
    /\ result' = 1
    /\ pc' = "body"
    /\ UNCHANGED <<inp, host, port, users, idx, attempts, exc, exitMsg,
                   delVars, useVars>>

\* line 160: sys.exit("Could not ssh into '%s'" % host)
Exhausted ==
    /\ pc = "for"
    /\ delpc = 0
    /\ idx > Len(users)
    /\ exitMsg' = Some(<<"Could not ssh into '", host, "'">>)
    /\ exc' = "SystemExit"
    /\ pc' = "exited"
    /\ UNCHANGED <<inp, connVars, heap, lastCall, lastResult, delVars,
                   useVars>>

----------------------------------------------------------------------------
(* Connection.__del__ *)

\* the object is still referenced by the running program
Reachable(k) ==
    \/ k = idx /\ pc \in {"probe", "verify"}
    \/ k = result /\ pc \in {"returned", "body", "unwind"}

Oldest == CHOOSE k \in Objs : \A j \in Objs : k <= j

\* the object after a teardown: a finalised object is freed, an object whose
\* __del__ was called by its holder stays
AfterDel(k, c) ==
    IF Reachable(k) THEN Put(k, [c EXCEPT !.dels = @ + 1]) ELSE Free(k)

\* the signal is never sent
SignalsNever(alive) == FALSE

\* the signal is sent without looking at the poll
SignalsAlways(alive) == TRUE

\* lines 88-90: the signal is sent when poll() returns None
Signals(alive) == alive

\* lines 87-90: the handle is read and polled
DelPoll(k) ==
    /\ delpc = 0
    /\ k \in Objs
    /\ IF heap[k].handle = "unset"
         THEN \* the attribute was never assigned: AttributeError
              /\ delErr' = TRUE
              /\ heap' = AfterDel(k, heap[k])
              /\ delpc' = 0
              /\ leaked' = leaked
         ELSE \E alive \in PollOutcomes(heap[k]) :
                /\ delErr' = delErr
                /\ IF Signals(alive)
                     THEN /\ heap' = heap
                          /\ delpc' = k
                          /\ leaked' = leaked
                     ELSE /\ heap' = AfterDel(k, Polled(heap[k], alive))
                          /\ delpc' = 0
                          /\ leaked' = (leaked \/ (alive /\ ~Reachable(k)))
    /\ UNCHANGED <<inp, pc, connVars, exc, exitMsg, lastCall, lastResult,
                   sigDead, useVars>>

\* line 91: send_signal(SIGTERM); the process may have exited since the poll
DelSignal ==
    /\ delpc # 0
    /\ \E gone \in BOOLEAN :
        /\ sigDead' = (sigDead \/ gone)
        /\ heap' = AfterDel(delpc, [heap[delpc] EXCEPT !.mux =
                                IF gone THEN "exited" ELSE "signalled"])
    /\ delpc' = 0
    /\ UNCHANGED <<inp, pc, connVars, exc, exitMsg, lastCall, lastResult,
                   delErr, leaked, useVars>>

\* the runtime finalises the oldest unreachable object
Finalize ==
    /\ Objs # {}
    /\ ~Reachable(Oldest)
    /\ IF IsLocal(heap[Oldest])
         THEN \* a LocalConnection has no __del__
              /\ delpc = 0
              /\ heap' = Free(Oldest)
              /\ UNCHANGED <<inp, pc, connVars, exc, exitMsg, lastCall,
                             lastResult, delVars, useVars>>
         ELSE DelPoll(Oldest)

\* the caller holding the connection calls its teardown
Teardown ==
    /\ pc = "body"
    /\ inp.entry = "connect"
    /\ heap[result].dels < MaxTeardowns
    /\ DelPoll(result)

----------------------------------------------------------------------------
(* ssh_cmd, ssh_sudo *)

BS == "BS"
Cmds == {<<"ls">>, <<"echo ", DQ, "hi", DQ>>}
CmdOutputs == {<<LF, "a", CR, LF, "b", LF>>, <<>>}
RcText == (0 :> "0" @@ 1 :> "1")

\* str.replace("\r\n", "\n")
RECURSIVE ReplaceCRLF(_)
ReplaceCRLF(s) ==
    IF s = <<>> THEN <<>>
    ELSE IF Len(s) >= 2 /\ s[1] = CR /\ s[2] = LF
           THEN <<LF>> \o ReplaceCRLF(SubSeq(s, 3, Len(s)))
           ELSE <<s[1]>> \o ReplaceCRLF(Tail(s))

\* str.strip("\n")
RECURSIVE LStripNL(_), RStripNL(_)
LStripNL(s) == IF s # <<>> /\ Head(s) = LF THEN LStripNL(Tail(s)) ELSE s
RStripNL(s) ==
    IF s # <<>> /\ s[Len(s)] = LF THEN RStripNL(SubSeq(s, 1, Len(s) - 1)) ELSE s
StripNL(s) == LStripNL(RStripNL(s))

\* cmd.replace('"', r'\"')
RECURSIVE EscapeQuotes(_)
EscapeQuotes(s) ==
    IF s = <<>> THEN <<>>
    ELSE (IF s[1] = DQ THEN <<BS, DQ>> ELSE <<s[1]>>) \o EscapeQuotes(Tail(s))

\* the command is wrapped as it is, its quotes not escaped
SudoCmdRaw(cmd) == <<"sudo bash -c ", DQ>> \o cmd \o <<DQ>>

\* line 226
SudoCmd(cmd) == <<"sudo bash -c ", DQ>> \o EscapeQuotes(cmd) \o <<DQ>>

\* lines 204-218: what ssh_cmd returns for the result r
SshCmdValue(r) ==
    IF r.retcode = 0 THEN Some(StripNL(ReplaceCRLF(r.stdout))) ELSE None

\* the output is returned whatever the return code
SshSudoValueAlways(r) == Some(StripNL(r.stdout))

\* lines 230-244: what ssh_sudo returns for the result r
SshSudoValue(r) ==
    IF r.retcode = 0 THEN Some(StripNL(r.stdout)) ELSE None

\* lines 206, 209-217 and 232, 235-243: the message logged, and its level
Logged(prefix, cmd, r, errors) ==
    IF r.retcode = 0
      THEN Some([level |-> "debug",
                 msg |-> <<"'">> \o cmd \o <<"' -> '...'">>])
      ELSE Some([level |-> IF errors THEN "error" ELSE "debug",
                 msg |-> <<prefix, " command unexpectedly exited: '">> \o cmd
                         \o <<"' [", RcText[r.retcode], "]">>])

\* an exception leaves the body: through __exit__ when the connection is
\* used in a with statement, else straight to the caller
Raise == IF scope = "entered" THEN "unwind" ELSE "failed"

InBody ==
    /\ pc = "body"
    /\ delpc = 0
    /\ ops < MaxOps

\* lines 200-218
SshCmd ==
    /\ InBody
    /\ inp.entry # "scp"
    /\ \E cmd \in Cmds, errors \in BOOLEAN,
          alive \in PollOutcomes(heap[result]),
          r \in RunOutcomes(heap[result], CmdOutputs) :
        LET c == Polled(heap[result], alive)
        IN  /\ heap' = Put(result, c)
            /\ lastCall' = RunCall(c, alive, cmd)
            /\ lastResult' = ResultOf(r, cmd)
            /\ IF r.raised
                 THEN /\ exc' = "ExecutionError"
                      /\ pc' = Raise
                      /\ ret' = [op |-> "ssh_cmd", cmd |-> cmd,
                                 errors |-> errors, returned |-> FALSE]
                      /\ diag' = None
                 ELSE /\ exc' = exc
                      /\ pc' = pc
                      /\ ret' = [op |-> "ssh_cmd", cmd |-> cmd,
                                 errors |-> errors, returned |-> TRUE,
                                 value |-> SshCmdValue(r)]
                      /\ diag' = Logged("Non-sudo", cmd, r, errors)
    /\ ops' = ops + 1
    /\ UNCHANGED <<inp, connVars, exitMsg, delVars, scope>>

\* lines 221-244
SshSudo ==
    /\ InBody
    /\ inp.entry # "scp"
    /\ \E cmd \in Cmds, errors \in BOOLEAN,
          alive \in PollOutcomes(heap[result]),
          r \in RunOutcomes(heap[result], CmdOutputs) :
        LET c == Polled(heap[result], alive)
            run == IF c.needs_sudo = "True" THEN SudoCmd(cmd) ELSE cmd
        IN  /\ heap' = Put(result, c)
            /\ lastCall' = RunCall(c, alive, run)
            /\ lastResult' = ResultOf(r, run)
            /\ IF r.raised
                 THEN /\ exc' = "ExecutionError"
                      /\ pc' = Raise
                      /\ ret' = [op |-> "ssh_sudo", cmd |-> cmd,
                                 errors |-> errors, returned |-> FALSE]
                      /\ diag' = None
                 ELSE /\ exc' = exc
                      /\ pc' = pc
                      /\ ret' = [op |-> "ssh_sudo", cmd |-> cmd,
                                 errors |-> errors, returned |-> TRUE,
                                 value |-> SshSudoValue(r)]
                      /\ diag' = Logged("Sudo", cmd, r, errors)
    /\ ops' = ops + 1
    /\ UNCHANGED <<inp, connVars, exitMsg, delVars, scope>>

\* the call without a connection returns None
NoConnectionOutcomesNone == {"None"}

\* lines 201 and 222: assert connection fails; when asserts are compiled
\* out (python -O) the attribute access of line 203 or 224 fails
NoConnectionOutcomes == {"AssertionError", "AttributeError"}

\* lines 200-203 and 221-224: ssh_cmd or ssh_sudo called with connection
\* None by a caller of connect, as its first call
DispatchNoConnection ==
    /\ InBody
    /\ ops = 0
    /\ inp.entry = "connect"
    /\ \E fn \in {"ssh_cmd", "ssh_sudo"}, cmd \in Cmds,
          e \in NoConnectionOutcomes :
        LET call == [op |-> "no_connection", fn |-> fn, cmd |-> cmd]
        IN  IF e = "None"
              THEN /\ ret' = call @@ [returned |-> TRUE, value |-> None]
                   /\ exc' = exc
                   /\ pc' = pc
              ELSE /\ ret' = call @@ [returned |-> FALSE]
                   /\ exc' = e
                   /\ pc' = Raise
    /\ ops' = ops + 1
    /\ UNCHANGED <<inp, connVars, heap, exitMsg, lastCall, lastResult,
                   delVars, scope, diag>>

----------------------------------------------------------------------------
(* scp with a connection *)

Files == {<<"a">>, <<"dir", "/", "a">>}
Renames == {None, Some(<<>>), Some(<<"a">>), Some(<<"b">>)}

\* os.path.basename: what follows the last "/"
RECURSIVE basename(_)
basename(path) ==
    IF \E k \in 1..Len(path) : path[k] = "/"
      THEN basename(Tail(path)) ELSE path

\* aramid.put for one host: it raises or returns that host's result
PutOutcomes ==
    {[raised |-> TRUE]} \cup
    {[raised |-> FALSE, retcode |-> rc, stdout |-> <<>>] : rc \in RetCodes}

\* the transfer is given the key and the control path, as a run is
PutCallShared(c, src) ==
    [op |-> "put", host |-> c.ssh_host, user |-> c.ssh_user,
     port |-> c.ssh_port, args |-> extra_ssh_args(c, TRUE), command |-> src,
     dst |-> basename(src)]

\* the aramid.put call made by Connection.put (lines 108-112)
PutCall(c, src) ==
    [op |-> "put", host |-> c.ssh_host, user |-> c.ssh_user,
     port |-> c.ssh_port, args |-> <<>>, command |-> src,
     dst |-> basename(src)]

\* lines 39-45: LocalConnection.put copies the file into HOME unless it is
\* that file already
LocalPutCall(src) ==
    LET dst == <<HomeDir, "/">> \o basename(src)
    IN  [op |-> "put", command |-> src, dst |-> dst,
         copied |-> (abspath(src) # dst)]

\* line 112: what Connection.put returns
PutValue(p) == p.retcode

\* a rename command is issued whenever a name is given
RenamingGiven(file, rename) ==
    /\ rename.given
    /\ Len(rename.v) > 0

\* line 190-192: a rename command is issued
Renaming(file, rename) ==
    /\ rename.given
    /\ Len(rename.v) > 0
    /\ basename(file) # rename.v

\* line 196
MvCmd(file, rename) == <<"mv ">> \o basename(file) \o <<" ">> \o rename

\* connection.put(file): the call it makes, what can come of it, what it
\* returns (LocalConnection.put returns None) and the result it leaves
PutCallOf(c, src) == IF IsLocal(c) THEN LocalPutCall(src) ELSE PutCall(c, src)
PutOutcomesOf(c) == IF IsLocal(c) THEN {[raised |-> FALSE]} ELSE PutOutcomes
PutReturn(c, p) == IF IsLocal(c) THEN None ELSE Some(PutValue(p))
PutResult(c, p, src) == IF IsLocal(c) THEN lastResult ELSE ResultOf(p, src)

\* scp returns what put returned
ScpValuePut(putval) == IF putval.given THEN putval.v ELSE 0

\* lines 193 and 197: return 0
ScpValue(putval) == 0

\* lines 186-197
Scp ==
    /\ InBody
    /\ \E file \in Files, rename \in Renames,
          p \in PutOutcomesOf(heap[result]) :
        LET c == heap[result]
            call == [op |-> "scp", cmd |-> file, rename |-> rename]
        IN  \/ \* connection.put raises
               /\ p.raised
               /\ heap' = heap
               /\ lastCall' = PutCallOf(c, file)
               /\ lastResult' = PutResult(c, p, file)
               /\ exc' = "ExecutionError"
               /\ pc' = Raise
               /\ ret' = call @@ [returned |-> FALSE,
                                  calls |-> <<PutCallOf(c, file)>>]
               /\ diag' = None
            \/ \* lines 190-193 and 197: no rename
               /\ ~p.raised
               /\ ~Renaming(file, rename)
               /\ heap' = heap
               /\ lastCall' = PutCallOf(c, file)
               /\ lastResult' = PutResult(c, p, file)
               /\ exc' = exc
               /\ pc' = pc
               /\ ret' = call @@ [returned |-> TRUE,
                                  value |-> ScpValue(PutReturn(c, p)),
                                  calls |-> <<PutCallOf(c, file)>>,
                                  putval |-> PutReturn(c, p)]
               /\ diag' = None
            \/ \* lines 194-197: ssh_cmd(connection, "mv ...")
               /\ ~p.raised
               /\ Renaming(file, rename)
               /\ \E alive \in PollOutcomes(c), r \in RunOutcomes(c, {<<>>}) :
                    LET mv == MvCmd(file, rename.v)
                        c2 == Polled(c, alive)
                        done == call @@
                                [calls |-> <<PutCallOf(c, file),
                                             RunCall(c2, alive, mv)>>,
                                 putval |-> PutReturn(c, p)]
                    IN  /\ heap' = Put(result, c2)
                        /\ lastCall' = RunCall(c2, alive, mv)
                        /\ lastResult' = ResultOf(r, mv)
                        /\ IF r.raised
                             THEN /\ exc' = "ExecutionError"
                                  /\ pc' = Raise
                                  /\ ret' = done @@ [returned |-> FALSE]
                                  /\ diag' = None
                             ELSE /\ exc' = exc
                                  /\ pc' = pc
                                  /\ ret' = done @@
                                       [returned |-> TRUE,
                                        value |-> ScpValue(PutReturn(c, p))]
                                  /\ diag' = Logged("Non-sudo", mv, r, FALSE)
    /\ ops' = ops + 1
    /\ UNCHANGED <<inp, connVars, exitMsg, delVars, scope>>

----------------------------------------------------------------------------
(* Scoped use: auto_connect and scp without a connection *)

\* lines 173 and 184: with connect(...) as connection -> __enter__
Enter ==
    /\ pc = "returned"
    /\ delpc = 0
    /\ inp.entry \in {"scp", "auto"}
    /\ scope' = "entered"
    /\ pc' = "body"
    /\ UNCHANGED <<inp, connVars, heap, exc, exitMsg, lastCall, lastResult,
                   delVars, ops, ret, diag>>

\* connect was called directly: its caller holds the connection
Hold ==
    /\ pc = "returned"
    /\ delpc = 0
    /\ inp.entry = "connect"
    /\ pc' = "body"
    /\ UNCHANGED <<inp, connVars, heap, exc, exitMsg, lastCall, lastResult,
                   delVars, useVars>>

\* lines 117-118: __exit__ does nothing; the with statement is left, by a
\* return or by the exception the body raised (lines 179 and 185, 197)
Exit ==
    /\ pc \in {"body", "unwind"}
    /\ delpc = 0
    /\ scope = "entered"
    /\ inp.entry = "scp" => (pc = "unwind" \/ ops = 1)
    /\ scope' = "exited"
    /\ pc' = IF pc = "unwind" THEN "failed" ELSE "done"
    \* line 197: scp that made the connection itself returns 0, whatever
    \* the scp of line 185 returned
    /\ ret' = IF inp.entry = "scp" /\ pc = "body"
                THEN [ret EXCEPT !.value = 0] ELSE ret
    /\ UNCHANGED <<inp, connVars, heap, exc, exitMsg, lastCall, lastResult,
                   delVars, ops, diag>>

\* the caller of connect lets go of the connection; line 172: the wrapped
\* function returns and the LocalConnection made for it is let go of
Drop ==
    /\ pc = "body"
    /\ delpc = 0
    /\ inp.entry = "connect" \/ (inp.entry = "auto" /\ IsLocalhost(inp))
    /\ pc' = "done"
    /\ UNCHANGED <<inp, connVars, heap, exc, exitMsg, lastCall, lastResult,
                   delVars, useVars>>

----------------------------------------------------------------------------

Next ==
    \/ ConnectStart
    \/ LocalConnect
    \/ AttemptLaunch
    \/ AttemptProbe
    \/ AttemptVerify
    \/ Exhausted
    \/ Finalize
    \/ Teardown
    \/ DelSignal
    \/ SshCmd
    \/ SshSudo
    \/ DispatchNoConnection
    \/ Scp
    \/ Enter
    \/ Hold
    \/ Exit
    \/ Drop

Spec == Init /\ [][Next]_vars

\* connect alone, over every kind of user list
NextConnect ==
    \/ ConnectStart
    \/ AttemptLaunch
    \/ AttemptProbe
    \/ AttemptVerify
    \/ Exhausted
    \/ Finalize
    \/ DelSignal

SpecConnect == InitConnect /\ [][NextConnect]_vars

\* connect under a runtime that does finalise an unreachable object, and
\* ends a __del__ it has begun; over every kind of user list, for one
\* invoking user, the default port and no key
FairInputs ==
    {i \in ConnectInputs :
        /\ i.osUser = "alice"
        /\ i.parts.username # Some("")
        /\ ~i.parts.port.given
        /\ ~i.key.given}

InitFair == inp \in FairInputs /\ Start

SpecConnectFair ==
    /\ InitFair
    /\ [][NextConnect]_vars
    /\ WF_vars(Finalize)
    /\ WF_vars(DelSignal)

----------------------------------------------------------------------------
(* Properties of connect *)

\* C1: the attempts made so far are the first candidates in list order, each
\* once, and when connect returns the attempts end with the returned
\* connection, whose recorded user is that candidate
C1_AttemptsArePrefix ==
    /\ Len(attempts) <= Len(users)
    /\ attempts = SubSeq(users, 1, Len(attempts))
    /\ pc = "for" => Len(attempts) = idx - 1
    /\ pc = "returned" =>
         /\ result = Len(attempts)
         /\ heap[result].ssh_user = users[Len(attempts)]

C1_Witness ==
    /\ pc = "returned"
    /\ Len(users) > 2
    /\ result = Len(users)

\* the user list as the claim C2 states it
ClaimedUsers ==
    IF inp.users.given THEN inp.users.v
    ELSE IF inp.parts.username.given THEN <<inp.parts.username.v>>
    ELSE IF InList(inp.osUser, FALLBACK) THEN FALLBACK
    ELSE <<inp.osUser>> \o FALLBACK

\* C2 as claimed: an explicit list is used whenever it is given, an embedded
\* username whenever the host carries one
C2_Claimed == pc # "start" => users = ClaimedUsers

\* C2 amended: an explicit list is used when it is given and not empty,
\* else an embedded username when it is not empty, else the fallback list
\* with the invoking user first unless the list already has it
C2_CandidateUsers ==
    pc # "start" =>
        users = (IF inp.users.given /\ inp.users.v # <<>> THEN inp.users.v
                 ELSE IF inp.parts.username.given /\ inp.parts.username.v # ""
                   THEN <<inp.parts.username.v>>
                 ELSE IF InList(inp.osUser, FALLBACK) THEN FALLBACK
                 ELSE <<inp.osUser>> \o FALLBACK)

C2_Witness ==
    /\ pc # "start"
    /\ inp.users = Some(<<>>)
    /\ inp.parts.username = Some("")
    /\ inp.osUser = "root"
    /\ users = FALLBACK

\* C3 as claimed: when connect ends without a connection it has tried every
\* candidate once and exits the process with a diagnostic naming the host
C3_Claimed ==
    pc \in {"exited", "raised"} =>
        /\ pc = "exited"
        /\ attempts = users
        /\ exitMsg.given
        /\ InList(host, exitMsg.v)

\* C4 as claimed: no failure of an attempt reaches the caller of connect
\* while candidates remain untried
C4_Claimed == ~(pc = "raised" /\ Len(attempts) < Len(users))

\* C5 as claimed: the returned candidate's whoami command succeeded
C5_Claimed ==
    pc = "returned" =>
        /\ lastResult.of = <<"whoami">>
        /\ ~lastResult.raised
        /\ lastResult.retcode = 0

\* C5 amended: connect returns a connection only if its construction
\* completed (Control Master launched, needs_sudo probed) and the whoami run
\* came back from the engine without raising; the return code of whoami is
\* not examined
C5_ReturnedVerified ==
    pc = "returned" =>
        /\ result = idx
        /\ heap[result].handle = "set"
        /\ heap[result].needs_sudo # "unset"
        /\ lastResult.of = <<"whoami">>
        /\ ~lastResult.raised

C5_Witness ==
    /\ pc = "returned"
    /\ result > 1
    /\ lastResult.retcode = 1

----------------------------------------------------------------------------
(* Properties of the use and teardown of a connection *)

\* C6 as claimed: when the with statement has been left, the teardown of the
\* connection it bracketed has run
C6_Claimed == scope = "exited" => result \notin Objs

\* C7 as claimed: teardown never raises and never signals a process that has
\* exited
C7_Claimed == ~delErr /\ ~sigDead

Torn == result \in Objs /\ heap[result].dels >= 1

\* C8: after a teardown the Control Master is signalled or reaped, and a
\* further teardown does not raise and changes nothing of the connection;
\* the process state changes only by the exit of the process itself
C8_TeardownIdempotent ==
    /\ [](Torn => heap[result].mux \in {"signalled", "exited"})
    /\ [][(Torn /\ result \in DOMAIN heap') =>
            /\ delErr' = delErr
            /\ heap'[result].mux \in {heap[result].mux, "exited"}
            /\ [heap'[result] EXCEPT !.mux = "-", !.dels = 0]
                 = [heap[result] EXCEPT !.mux = "-", !.dels = 0]]_vars

C8_Witness ==
    /\ result \in Objs
    /\ heap[result].dels = 2
    /\ heap[result].mux = "signalled"

Contains(s, sub) ==
    \E i \in 0..(Len(s) - Len(sub)) : SubSeq(s, i + 1, i + Len(sub)) = sub

\* C9: ssh_cmd and ssh_sudo return None exactly when the return code is not
\* zero and the output otherwise; they raise only when the engine raised;
\* with errors set the failure is logged as an error naming the command and
\* the return code
C9_DispatchResult ==
    ret.op \in {"ssh_cmd", "ssh_sudo"} =>
        /\ ret.returned = ~lastResult.raised
        /\ ret.returned =>
             /\ ret.value.given = (lastResult.retcode = 0)
             /\ (lastResult.retcode # 0 /\ ret.errors) =>
                  /\ diag.given
                  /\ diag.v.level = "error"
                  /\ Contains(diag.v.msg, ret.cmd)
                  /\ Contains(diag.v.msg, <<RcText[lastResult.retcode]>>)

C9_Witness ==
    /\ ret.op = "ssh_sudo"
    /\ ret.returned
    /\ ret.errors
    /\ lastResult.retcode = 1
    /\ ~ret.value.given

\* C10 as claimed: on an established connection no operation raises
C10_Claimed == result # 0 => exc = "none"

----------------------------------------------------------------------------
(* Properties of the commands and transfers issued *)

\* every double quote of s has a backslash right before it
QuotesEscaped(s) ==
    \A i \in 1..Len(s) : s[i] = DQ => (i > 1 /\ s[i - 1] = BS)

\* s with the backslash before each double quote taken away
RECURSIVE Unescaped(_)
Unescaped(s) ==
    IF s = <<>> THEN <<>>
    ELSE IF Len(s) >= 2 /\ s[1] = BS /\ s[2] = DQ
           THEN <<DQ>> \o Unescaped(SubSeq(s, 3, Len(s)))
           ELSE <<s[1]>> \o Unescaped(Tail(s))

\* run is cmd with its double quotes escaped, inside sudo bash -c "..."
IsSudoWrap(run, cmd) ==
    /\ Len(run) >= 3
    /\ SubSeq(run, 1, 2) = <<"sudo bash -c ", DQ>>
    /\ run[Len(run)] = DQ
    /\ LET mid == SubSeq(run, 3, Len(run) - 1)
       IN  /\ QuotesEscaped(mid)
           /\ Unescaped(mid) = cmd

\* C11: the command ssh_sudo hands to connection.run is the one command of
\* the call: on a connection that needs sudo it is the given command with
\* every double quote escaped, wrapped as sudo bash -c "...", and on a
\* connection that does not it is the given command itself
C11_SudoCommand ==
    (ret.op = "ssh_sudo" /\ result \in Objs) =>
        /\ lastCall.op \in {"execute", "subprocess.run"}
        /\ lastResult.of = lastCall.command
        /\ heap[result].needs_sudo \in {"True", "False"}
        /\ heap[result].needs_sudo = "True" =>
             IsSudoWrap(lastCall.command, ret.cmd)
        /\ heap[result].needs_sudo = "False" => lastCall.command = ret.cmd

C11_Witness ==
    /\ ret.op = "ssh_sudo"
    /\ result \in Objs
    /\ heap[result].needs_sudo = "True"
    /\ InList(DQ, ret.cmd)
    /\ lastCall.command = <<"sudo bash -c ", DQ, "echo ", BS, DQ, "hi", BS, DQ, DQ>>

\* the part of path after its last "/", the whole of it when it has none
LastComponent(path) ==
    LET slashes == {k \in 1..Len(path) : path[k] = "/"}
        from == IF slashes = {} THEN 1
                ELSE 1 + CHOOSE k \in slashes : \A j \in slashes : j <= k
    IN  SubSeq(path, from, Len(path))

\* C12 as claimed: a scp call that returns has made one put, and one rename
\* command exactly when a new name is given that differs from the base
\* name of the file, none otherwise
C12_Claimed ==
    (ret.op = "scp" /\ ret.returned) =>
        /\ ret.calls[1].op = "put"
        /\ Len(ret.calls) =
             (IF ~ret.rename.given \/ ret.rename.v = LastComponent(ret.cmd)
                THEN 1 ELSE 2)

\* C12 amended: a scp call, on a given connection or on one it made itself,
\* first makes one put of the file and no other put; when it returns it has
\* then issued one command, mv <base name> <new name> as it stands (not
\* through sudo), if a new name is given that is not empty and differs from
\* the base name of the file, and no command otherwise; a call that raises
\* has issued no other command than that one
C12_CopyCalls ==
    ret.op = "scp" =>
        LET base == LastComponent(ret.cmd)
            wanted == /\ ret.rename.given
                      /\ ret.rename.v # <<>>
                      /\ ret.rename.v # base
        IN  /\ Len(ret.calls) \in {1, 2}
            /\ ret.calls[1].op = "put"
            /\ ret.calls[1].command = ret.cmd
            /\ ret.returned => Len(ret.calls) = (IF wanted THEN 2 ELSE 1)
            /\ Len(ret.calls) = 2 =>
                 /\ wanted
                 /\ ret.calls[2].op \in {"execute", "subprocess.run"}
                 /\ ret.calls[2].command
                      = <<"mv ">> \o base \o <<" ">> \o ret.rename.v
                 /\ lastCall = ret.calls[2]
            /\ Len(ret.calls) = 1 => lastCall = ret.calls[1]

C12_Witness ==
    /\ inp.entry = "scp"
    /\ ret.op = "scp"
    /\ ret.returned
    /\ ret.cmd = <<"dir", "/", "a">>
    /\ Len(ret.calls) = 2
    /\ lastCall.command = <<"mv ", "a", " ", "b">>

\* C13: a scp call that returns, on a given connection or on one it made
\* itself, returns 0, whatever put returned and whether or not the rename
\* command succeeded
C13_ScpReturnsZero ==
    (ret.op = "scp" /\ ret.returned) => ret.value = 0

C13_Witness ==
    /\ inp.entry = "scp"
    /\ pc = "done"
    /\ ret.op = "scp"
    /\ ret.returned
    /\ ret.putval = Some(1)
    /\ Len(ret.calls) = 2
    /\ lastResult.retcode = 1
    /\ ret.value = 0

\* C14 as claimed: two connections that exist at the same time, each with
\* its Control Master launched, never have the same control socket
C14_Claimed ==
    \A j \in Objs : \A k \in Objs :
        (j # k /\ heap[j].handle = "set" /\ heap[k].handle = "set") =>
            ControlSocket(heap[j]) # ControlSocket(heap[k])

\* C15: ssh_cmd or ssh_sudo called without a connection raises at once: the
\* call does not return (so it returns no None), and it runs no command and
\* touches no connection
C15_NoConnectionFails ==
    /\ [](ret.op = "no_connection" =>
            /\ ~ret.returned
            /\ exc \in {"AssertionError", "AttributeError"}
            /\ pc = "failed")
    /\ [][(ret'.op = "no_connection" /\ ret' # ret) =>
            /\ lastCall' = lastCall
            /\ lastResult' = lastResult
            /\ heap' = heap]_vars

C15_Witness ==
    /\ ret.op = "no_connection"
    /\ ret.fn = "ssh_sudo"
    /\ exc = "AssertionError"
    /\ result \in Objs
    /\ lastCall.command = <<"whoami">>

\* C16: every run hands its command to the engine, with the control path
\* among the extra ssh arguments exactly when the poll of that run found the
\* Control Master alive, and with -i and the expanded key file exactly when
\* a key was given when the connection was made, whatever the poll found
C16_RunArgs ==
    lastCall.op = "execute" =>
        LET cp == <<"-oControlPath=", "cf_remote_dir", "/", "%C">>
            keyed == inp.key.given /\ inp.key.v # <<>>
            identity == IF keyed THEN << <<"-i">>, <<HomeDir, "/id">> >>
                        ELSE <<>>
        IN  /\ InList(cp, lastCall.args) = lastCall.polled
            /\ InList(<<"-i">>, lastCall.args) = keyed
            /\ lastCall.args
                 = identity \o (IF lastCall.polled THEN <<cp>> ELSE <<>>)
            /\ lastResult.of = lastCall.command

C16_Witness ==
    /\ ret.op = "ssh_cmd"
    /\ ret.returned
    /\ lastCall.op = "execute"
    /\ ~lastCall.polled
    /\ lastCall.args = << <<"-i">>, <<HomeDir, "/id">> >>
    /\ result \in Objs
    /\ heap[result].mux = "exited"

\* C17 as claimed: when CF_REMOTE_SSH_KEY is set, every Control Master that
\* connect launches is started with the control path and with the key file
\* among its arguments
C17_Claimed ==
    \A k \in Objs :
        (heap[k].handle = "set" /\ inp.key.given /\ inp.key.v # <<>>) =>
            /\ InList(<<"-oControlPath=">> \o heap[k].control_path,
                      heap[k].launch)
            /\ InList(<<"-i">>, heap[k].launch)
            /\ InList(expanduser(inp.key.v), heap[k].launch)

\* the probe printed the id 0, with nothing but white space around it
PrintsZero(out) ==
    \E i \in 1..Len(out) :
        /\ out[i] = "0"
        /\ \A j \in 1..Len(out) : j # i => out[j] \in {CR, LF, SP}

PortOf(c) == IF "ssh_port" \in DOMAIN c THEN c.ssh_port ELSE 0

\* C18: the user, host and port of a connection object, local or remote,
\* are those it was constructed with and no step changes them, the binding
\* step of connect included; needs_sudo is assigned once, by the
\* constructor, as True exactly when the probe did not print the id 0, and
\* no step changes it afterwards
C18_FieldsFixed ==
    /\ [](\A k \in Objs :
            ~IsLocal(heap[k]) =>
                /\ heap[k].ssh_user = users[k]
                /\ heap[k].ssh_host = host
                /\ heap[k].ssh_port = port)
    /\ [][\/ heap' = heap
          \/ \A k \in DOMAIN heap' :
               /\ k \in Objs =>
                    /\ heap'[k].ssh_user = heap[k].ssh_user
                    /\ heap'[k].ssh_host = heap[k].ssh_host
                    /\ PortOf(heap'[k]) = PortOf(heap[k])
                    /\ heap[k].needs_sudo # "unset" =>
                         heap'[k].needs_sudo = heap[k].needs_sudo
               /\ (/\ heap'[k].needs_sudo # "unset"
                   /\ k \in Objs => heap[k].needs_sudo = "unset") =>
                    /\ lastCall'.command = <<"echo $UID">>
                    /\ (heap'[k].needs_sudo = "True")
                         = ~PrintsZero(lastResult'.stdout)]_vars

C18_Witness ==
    /\ pc = "body"
    /\ ops = 2
    /\ ret.op = "scp"
    /\ Len(ret.calls) = 2
    /\ result = 2
    /\ heap[result].ssh_user = "root"
    /\ heap[result].needs_sudo = "False"
    /\ heap[result].dels = 1

OnRemote == ~(inp.entry = "auto" /\ IsLocalhost(inp))

\* C20 as claimed: the put of a Connection hands the transfer engine no
\* extra ssh arguments, so they differ from those of a run on the same
\* connection
C20_Claimed ==
    (ret.op = "scp" /\ OnRemote /\ ret.returned /\ Len(ret.calls) = 2) =>
        /\ ret.calls[1].args = <<>>
        /\ ret.calls[1].args # ret.calls[2].args

\* C20 amended: the put of a Connection makes one transfer, to the
\* connection's host, user and port, of the file to its base name, with no
\* extra ssh arguments whatever the state of the Control Master and
\* whether or not a key was given, and returns the return code of that
\* transfer; its arguments differ from those of a run on the same
\* connection exactly when that run has any, that is when a key was given
\* or the run found the Control Master alive
C20_PutArgs ==
    (ret.op = "scp" /\ OnRemote) =>
        LET put == ret.calls[1]
            keyed == inp.key.given /\ inp.key.v # <<>>
        IN  /\ put.op = "put"
            /\ put.args = <<>>
            /\ put.command = ret.cmd
            /\ put.dst = LastComponent(ret.cmd)
            /\ put.host = host /\ put.port = port /\ put.user = users[result]
            /\ Len(ret.calls) = 2 =>
                 /\ ret.calls[2].host = put.host
                 /\ ret.calls[2].user = put.user
                 /\ ret.calls[2].port = put.port
                 /\ (put.args # ret.calls[2].args)
                      = (keyed \/ ret.calls[2].polled)
            /\ (ret.returned /\ Len(ret.calls) = 1) =>
                 /\ lastCall = put
                 /\ ret.putval = Some(lastResult.retcode)

C20_Witness ==
    /\ ret.op = "scp"
    /\ OnRemote
    /\ ret.returned
    /\ ret.cmd = <<"dir", "/", "a">>
    /\ Len(ret.calls) = 2
    /\ inp.key.given
    /\ ret.calls[2].polled
    /\ ret.calls[1].args = <<>>
    /\ ret.calls[1].dst = <<"a">>
    /\ ret.putval = Some(1)

====
